---- MODULE Spec2Model ----
(***************************************************************************)
(* A model of launcher/docker.go: the docker daemon supervisor             *)
(* (startDocker), the inventory queries (getContainerIDs,                  *)
(* getContainerIDForNodeName, getContainerAddr) and the log aggregation    *)
(* (printContainerLogs, tailContainerLogs).                                *)
(*                                                                         *)
(* Each function is modelled by its own specification over one shared set  *)
(* of variables; the variables of the functions a specification does not   *)
(* run stay at their idle values.                                          *)
(***************************************************************************)
EXTENDS Integers, Sequences, FiniteSets, TLC

VARIABLES
    ctxDone,                  \* the shared context.Context has been cancelled
    \* ---- startDocker ----
    maxDockerLaunchAttempts,  \* the attempt ceiling (package constant, any M >= 0)
    sdPc,                     \* position in startDocker
    attempts,                 \* the local counter "attempts"
    sdRet,                    \* the value startDocker returned
    probes,                   \* history: "docker ps" commands run
    probesFailed,             \* history: "docker ps" commands that failed
    restarts,                 \* history: "service docker start" commands run
    restartsFailed,           \* history: "service docker start" commands that failed
    sleeps,                   \* history: completed time.Sleep(time.Second)
    sdCancelledAt,            \* history: the step count at which ctx was cancelled
    sdAfterCancel,            \* history: what happened with ctx already cancelled:
                              \* probes that succeeded, restarts that succeeded,
                              \* sleeps that were started
    \* ---- inventory queries ----
    invPc,                    \* "call": a query is about to run; "returned": it has
    invOp,                    \* which query: "ids", "name" or "addr"
    invAll,                   \* the argument "all" of getContainerIDs
    invCmdOk,                 \* whether the docker command exits 0
    invOutput,                \* what the docker command prints on stdout
    invArgs,                  \* the arguments the docker command was run with
    invCmds,                  \* docker commands run by the call
    invRetIDs,                \* the []string getContainerIDs returned
    invRetStr,                \* the string the other two queries returned
    invErr,                   \* the error returned: "none" (not yet), "nil", "cmdErr"
    invCallNo,                \* history: which call of a run of queries this is
    invPrevErr,               \* history: the error the call before returned
    \* ---- the log functions ----
    containerIDs,             \* the argument containerIDs
    \* ---- printContainerLogs ----
    dpPc,                     \* position in printContainerLogs
    dpIdx,                    \* the position the range loop is at
    dpInFlight,               \* positions whose "docker logs" command is running
    dpAttempted,              \* history: the identifiers fetched, in order
    dpOutcome,                \* history: per position "none", "ok" or "fail"
    dpWarnings,               \* the logger.Warnf calls made: [id, err]
    \* ---- tailContainerLogs ----
    tlPc,                     \* position in tailContainerLogs
    tlIdx,                    \* the position the range loop is at
    tlRet,                    \* the value tailContainerLogs returned
    tlFileOk,                 \* history: os.Create "none" (not yet), "ok" or "fail"
    err,                      \* the variable err of tailContainerLogs, which the
                              \* goroutines' closures capture and assign
    tPc,                      \* per position: where that goroutine is
    tRun,                     \* per position: what its cmd.Run() returned
    tArgs,                    \* per position: the arguments of its docker command
    tStarted,                 \* per position: follow processes started
    tChunks,                  \* per position: chunks its command has written
    tWarned,                  \* per position: the errors it passed to logger.Warnf
    nodeLogger,               \* what the primary sink has received: <<position, n>>
    nodeLogFile               \* what node.log has received

sdVars == <<maxDockerLaunchAttempts, sdPc, attempts, sdRet, probes, probesFailed,
            restarts, restartsFailed, sleeps, sdCancelledAt, sdAfterCancel>>

invVars == <<invPc, invOp, invAll, invCmdOk, invOutput, invArgs, invCmds,
             invRetIDs, invRetStr, invErr, invCallNo, invPrevErr>>

dpVars == <<dpPc, dpIdx, dpInFlight, dpAttempted, dpOutcome, dpWarnings>>

tlVars == <<tlPc, tlIdx, tlRet, tlFileOk, err, tPc, tRun, tArgs, tStarted,
            tChunks, tWarned, nodeLogger, nodeLogFile>>

vars == <<ctxDone, sdVars, invVars, containerIDs, dpVars, tlVars>>

\* ---------------------------------------------------------------- bounds
MaxCeiling == 3
MaxOutput == 6
MaxIDs == 2
MaxChunks == 2
MaxCalls == 2
MaxShortOutput == 2

\* ------------------------------------------------------------ the context
\* ctx is cancelled by the owner of the context; every exec.CommandContext
\* of the file is bound to it.
CancelCtx ==
    /\ ~ctxDone
    /\ ctxDone' = TRUE

\* Outcomes of a command that takes no notice of the context.
RunOutcomesUnbound == {TRUE, FALSE}

\* The outcomes cmd.Run() can have: a command bound to a cancelled context
\* fails; otherwise the command decides.
RunOutcomes == IF ctxDone THEN {FALSE} ELSE {TRUE, FALSE}

\* ------------------------------------------------------------ startDocker
SdIdle ==
    /\ maxDockerLaunchAttempts = 0
    /\ sdPc = "idle"
    /\ attempts = 0
    /\ sdRet = "none"
    /\ probes = 0
    /\ probesFailed = 0
    /\ restarts = 0
    /\ restartsFailed = 0
    /\ sleeps = 0
    /\ sdCancelledAt = -1
    /\ sdAfterCancel = [ready |-> 0, restartOk |-> 0, sleepStart |-> 0]

SdInit ==
    /\ maxDockerLaunchAttempts \in 0..MaxCeiling
    /\ sdPc = "probe"
    /\ attempts = 0
    /\ sdRet = "none"
    /\ probes = 0
    /\ probesFailed = 0
    /\ restarts = 0
    /\ restartsFailed = 0
    /\ sleeps = 0
    /\ sdCancelledAt = -1
    /\ sdAfterCancel = [ready |-> 0, restartOk |-> 0, sleepStart |-> 0]

\* A ceiling test that lets one more attempt through.
CeilingReachedLate(n) == n > maxDockerLaunchAttempts + 1

\* The ceiling test of line 124.
CeilingReached(n) == n > maxDockerLaunchAttempts

\* A probe whose success does not return: the loop goes on to the ceiling test.
SdProbeStepNoReturn(ok) ==
    /\ sdPc = "probe"
    /\ probes' = probes + 1
    /\ sdPc' = "check"
    /\ sdRet' = sdRet
    /\ probesFailed' = IF ok THEN probesFailed ELSE probesFailed + 1
    /\ sdAfterCancel' = IF ctxDone /\ ok
                           THEN [sdAfterCancel EXCEPT !.ready = @ + 1]
                           ELSE sdAfterCancel
    /\ UNCHANGED <<maxDockerLaunchAttempts, attempts, restarts, restartsFailed,
                   sleeps, sdCancelledAt, ctxDone>>

\* psCmd.Run() and the test of its error (lines 113-122).
SdProbeStep(ok) ==
    /\ sdPc = "probe"
    /\ probes' = probes + 1
    /\ IF ok
         THEN /\ sdPc' = "done"
              /\ sdRet' = "nil"
              /\ probesFailed' = probesFailed
         ELSE /\ sdPc' = "check"
              /\ sdRet' = sdRet
              /\ probesFailed' = probesFailed + 1
    /\ sdAfterCancel' = IF ctxDone /\ ok
                           THEN [sdAfterCancel EXCEPT !.ready = @ + 1]
                           ELSE sdAfterCancel
    /\ UNCHANGED <<maxDockerLaunchAttempts, attempts, restarts, restartsFailed,
                   sleeps, sdCancelledAt, ctxDone>>

SdProbe == \E ok \in RunOutcomes : SdProbeStep(ok)

\* if attempts > maxDockerLaunchAttempts { return ErrLaunch } (lines 124-126).
SdCheck ==
    /\ sdPc = "check"
    /\ IF CeilingReached(attempts)
         THEN /\ sdPc' = "done"
              /\ sdRet' = "ErrLaunch"
         ELSE /\ sdPc' = "restart"
              /\ sdRet' = sdRet
    /\ UNCHANGED <<maxDockerLaunchAttempts, attempts, probes, probesFailed,
                   restarts, restartsFailed, sleeps, sdCancelledAt, sdAfterCancel,
                   ctxDone>>

\* A restart whose failure is not returned: the loop sleeps and retries.
SdRestartStepIgnoreErr(ok) ==
    /\ sdPc = "restart"
    /\ restarts' = restarts + 1
    /\ sdPc' = "sleep"
    /\ sdRet' = sdRet
    /\ restartsFailed' = IF ok THEN restartsFailed ELSE restartsFailed + 1
    /\ sdAfterCancel' = IF ctxDone /\ ok
                           THEN [sdAfterCancel EXCEPT !.restartOk = @ + 1]
                           ELSE sdAfterCancel
    /\ UNCHANGED <<maxDockerLaunchAttempts, attempts, probes, probesFailed,
                   sleeps, sdCancelledAt, ctxDone>>

\* startCmd.Run() and the test of its error (lines 128-136).
SdRestartStep(ok) ==
    /\ sdPc = "restart"
    /\ restarts' = restarts + 1
    /\ IF ok
         THEN /\ sdPc' = "sleep"
              /\ sdRet' = sdRet
              /\ restartsFailed' = restartsFailed
         ELSE /\ sdPc' = "done"
              /\ sdRet' = "startErr"
              /\ restartsFailed' = restartsFailed + 1
    /\ sdAfterCancel' = IF ctxDone /\ ok
                           THEN [sdAfterCancel EXCEPT !.restartOk = @ + 1]
                           ELSE sdAfterCancel
    /\ UNCHANGED <<maxDockerLaunchAttempts, attempts, probes, probesFailed,
                   sleeps, sdCancelledAt, ctxDone>>

SdRestart == \E ok \in RunOutcomes : SdRestartStep(ok)

\* time.Sleep(time.Second) is called (line 138); the sleep does not look
\* at ctx.
SdSleepStart ==
    /\ sdPc = "sleep"
    /\ sdPc' = "sleeping"
    /\ sdAfterCancel' = IF ctxDone
                           THEN [sdAfterCancel EXCEPT !.sleepStart = @ + 1]
                           ELSE sdAfterCancel
    /\ UNCHANGED <<maxDockerLaunchAttempts, attempts, sdRet, probes, probesFailed,
                   restarts, restartsFailed, sleeps, sdCancelledAt, ctxDone>>

\* A sleep that is left out: the loop goes from the restart to the increment.
SdSleepSkipped ==
    /\ sdPc = "sleeping"
    /\ sdPc' = "incr"
    /\ UNCHANGED <<maxDockerLaunchAttempts, attempts, sdRet, probes, probesFailed,
                   restarts, restartsFailed, sleeps, sdCancelledAt, sdAfterCancel,
                   ctxDone>>

\* time.Sleep(time.Second) returns, a second later (line 138).
SdSleep ==
    /\ sdPc = "sleeping"
    /\ sdPc' = "incr"
    /\ sleeps' = sleeps + 1
    /\ UNCHANGED <<maxDockerLaunchAttempts, attempts, sdRet, probes, probesFailed,
                   restarts, restartsFailed, sdCancelledAt, sdAfterCancel, ctxDone>>

\* attempts++ and back to the top of the loop (lines 140-141).
SdIncr ==
    /\ sdPc = "incr"
    /\ sdPc' = "probe"
    /\ attempts' = attempts + 1
    /\ UNCHANGED <<maxDockerLaunchAttempts, sdRet, probes, probesFailed,
                   restarts, restartsFailed, sleeps, sdCancelledAt, sdAfterCancel,
                   ctxDone>>

\* The context is cancelled while startDocker runs.
SdCancel ==
    /\ sdPc \notin {"idle", "done"}
    /\ CancelCtx
    /\ sdCancelledAt' = probes + restarts + sleeps
    /\ UNCHANGED <<maxDockerLaunchAttempts, sdPc, attempts, sdRet, probes,
                   probesFailed, restarts, restartsFailed, sleeps, sdAfterCancel>>

\* The steps of startDocker itself.
SdStep == SdProbe \/ SdCheck \/ SdRestart \/ SdSleepStart \/ SdSleep \/ SdIncr

SdNext == SdStep \/ SdCancel

\* ------------------------------------------------------ inventory queries
\* Strings are sequences of characters; Char is the alphabet of the outputs
\* the docker command is given here.
Char == {"a", "b", " ", "\n"}

Outputs == UNION {[1..n -> Char] : n \in 0..MaxOutput}

\* unicode.IsSpace, on the ASCII range.
IsSpace(c) == c \in {" ", "\n", "\t", "\r", "\f"}

\* strings.Index(s, "\n"), 1-based; 0 when there is none.
RECURSIVE IndexNewlineFrom(_, _)
IndexNewlineFrom(s, i) ==
    IF i > Len(s) THEN 0
    ELSE IF s[i] = "\n" THEN i
    ELSE IndexNewlineFrom(s, i + 1)

\* strings.Split(s, "\n") (line 160): the pieces between the separators, the
\* empty ones included; one empty piece for the empty string.
RECURSIVE Split(_)
Split(s) ==
    LET i == IndexNewlineFrom(s, 1)
    IN  IF i = 0 THEN <<s>>
        ELSE <<SubSeq(s, 1, i - 1)>> \o Split(SubSeq(s, i + 1, Len(s)))

RECURSIVE TrimLeft(_)
TrimLeft(s) ==
    IF s # <<>> /\ IsSpace(Head(s)) THEN TrimLeft(Tail(s)) ELSE s

RECURSIVE TrimRight(_)
TrimRight(s) ==
    IF s # <<>> /\ IsSpace(s[Len(s)]) THEN TrimRight(SubSeq(s, 1, Len(s) - 1)) ELSE s

\* strings.TrimSpace (lines 165, 253, 271).
TrimSpace(s) == TrimRight(TrimLeft(s))

\* A loop body that appends every trimmed line, blank or not.
AppendLineUnfiltered(ids, line) == Append(ids, TrimSpace(line))

\* The body of the loop of getContainerIDs (lines 165-169).
AppendLine(ids, line) ==
    LET trimmedLine == TrimSpace(line)
    IN  IF trimmedLine # <<>> THEN Append(ids, trimmedLine) ELSE ids

\* The loop of getContainerIDs over the first n lines (lines 162-170).
RECURSIVE CollectIDs(_, _)
CollectIDs(containerIDLines, n) ==
    IF n = 0 THEN <<>>
    ELSE AppendLine(CollectIDs(containerIDLines, n - 1), containerIDLines[n])

\* What getContainerIDs makes of the command's output (lines 160-172).
ParseContainerIDs(output) ==
    LET containerIDLines == Split(output)
    IN  CollectIDs(containerIDLines, Len(containerIDLines))

\* The arguments of "docker" in getContainerIDs (lines 145-151).
IDsArgs(all) == IF all THEN <<"ps", "-a", "--quiet">> ELSE <<"ps", "--quiet">>

InvIdle ==
    /\ invPc = "idle"
    /\ invOp = "none"
    /\ invAll = FALSE
    /\ invCmdOk = FALSE
    /\ invOutput = <<>>
    /\ invArgs = <<>>
    /\ invCmds = 0
    /\ invRetIDs = <<>>
    /\ invRetStr = <<>>
    /\ invErr = "none"
    /\ invCallNo = 0
    /\ invPrevErr = "none"

\* A call of one of the queries, with what the docker command will do.
InvCall(op, all, ok, output) ==
    /\ invPc = "call"
    /\ invOp = op
    /\ invAll = all
    /\ invCmdOk = ok
    /\ invOutput = output
    /\ invArgs = <<>>
    /\ invCmds = 0
    /\ invRetIDs = <<>>
    /\ invRetStr = <<>>
    /\ invErr = "none"

\* The first call, the command printing one of outs.
InvInitFrom(outs) ==
    /\ invCallNo = 1
    /\ invPrevErr = "none"
    /\ \E op \in {"ids", "name", "addr"}, all \in BOOLEAN, output \in outs :
          \E ok \in (IF ctxDone THEN {FALSE} ELSE BOOLEAN) :
              /\ (op # "ids" => all = FALSE)
              /\ InvCall(op, all, ok, output)

InvInit == InvInitFrom(Outputs)

\* The outputs of the runs of several queries.
ShortOutputs == UNION {[1..n -> Char] : n \in 0..MaxShortOutput}

\* The caller makes another query once one has returned: the functions keep
\* nothing, so the new call starts from its arguments and the command alone.
InvAgain ==
    /\ invPc = "returned"
    /\ invCallNo < MaxCalls
    /\ invCallNo' = invCallNo + 1
    /\ invPrevErr' = invErr
    /\ invPc' = "call"
    /\ invOp' \in {"ids", "name", "addr"}
    /\ invAll' \in (IF invOp' = "ids" THEN BOOLEAN ELSE {FALSE})
    /\ invCmdOk' \in (IF ctxDone THEN {FALSE} ELSE BOOLEAN)
    /\ invOutput' \in ShortOutputs
    /\ invArgs' = <<>>
    /\ invCmds' = 0
    /\ invRetIDs' = <<>>
    /\ invRetStr' = <<>>
    /\ invErr' = "none"
    /\ UNCHANGED ctxDone

\* A getContainerIDs that runs the command a second time when it failed.
GetContainerIDsRetry ==
    /\ invPc = "call" /\ invOp = "ids"
    /\ invArgs' = IDsArgs(invAll)
    /\ invCmds' = IF invCmdOk THEN invCmds + 1 ELSE invCmds + 2
    /\ IF invCmdOk
         THEN /\ invRetIDs' = ParseContainerIDs(invOutput)
              /\ invErr' = "nil"
         ELSE /\ invRetIDs' = <<>>
              /\ invErr' = "cmdErr"
    /\ invPc' = "returned"
    /\ UNCHANGED <<invOp, invAll, invCmdOk, invOutput, invRetStr, invCallNo,
                   invPrevErr, ctxDone>>

\* getContainerIDs (lines 144-173).
GetContainerIDs ==
    /\ invPc = "call" /\ invOp = "ids"
    /\ invArgs' = IDsArgs(invAll)
    /\ invCmds' = invCmds + 1
    /\ IF invCmdOk
         THEN /\ invRetIDs' = ParseContainerIDs(invOutput)
              /\ invErr' = "nil"
         ELSE /\ invRetIDs' = <<>>
              /\ invErr' = "cmdErr"
    /\ invPc' = "returned"
    /\ UNCHANGED <<invOp, invAll, invCmdOk, invOutput, invRetStr, invCallNo,
                   invPrevErr, ctxDone>>

\* A query that returns the output as it is.
UntrimmedOutput(output) == output

\* return strings.TrimSpace(string(output)), nil (lines 253, 271).
TrimmedOutput(output) == TrimSpace(output)

\* getContainerIDForNodeName (lines 238-254).
GetContainerIDForNodeName ==
    /\ invPc = "call" /\ invOp = "name"
    /\ invArgs' = <<"ps", "--quiet", "--filter", "name=nodeName">>
    /\ invCmds' = invCmds + 1
    /\ IF invCmdOk
         THEN /\ invRetStr' = TrimmedOutput(invOutput)
              /\ invErr' = "nil"
         ELSE /\ invRetStr' = <<>>
              /\ invErr' = "cmdErr"
    /\ invPc' = "returned"
    /\ UNCHANGED <<invOp, invAll, invCmdOk, invOutput, invRetIDs, invCallNo,
                   invPrevErr, ctxDone>>

\* getContainerAddr (lines 256-272).
GetContainerAddr ==
    /\ invPc = "call" /\ invOp = "addr"
    /\ invArgs' = <<"inspect", "--format", "template", "containerID">>
    /\ invCmds' = invCmds + 1
    /\ IF invCmdOk
         THEN /\ invRetStr' = TrimmedOutput(invOutput)
              /\ invErr' = "nil"
         ELSE /\ invRetStr' = <<>>
              /\ invErr' = "cmdErr"
    /\ invPc' = "returned"
    /\ UNCHANGED <<invOp, invAll, invCmdOk, invOutput, invRetIDs, invCallNo,
                   invPrevErr, ctxDone>>

\* ------------------------------------------------------- the log functions
ContainerID == {"c1", "c2", "c3"}

\* The identifier lists: up to MaxIDs different identifiers in any order.
IDLists ==
    UNION {{l \in [1..n -> ContainerID] : \A i, j \in 1..n : l[i] = l[j] => i = j}
               : n \in 0..MaxIDs}

\* The follow tasks treat every identifier alike, so for them one list of
\* each length stands for all: the first identifiers of a fixed order.
FollowOrder == <<"c3", "c1", "c2">>

FollowLists ==
    {SubSeq(FollowOrder, 1, n) : n \in {m \in 0..MaxIDs : m <= Len(FollowOrder)}}

\* Error values: nil, the error of the command run for an identifier when
\* that command fails by itself, and the one error of the context, which is
\* what cmd.Run() returns when the context is done.
NoErr == [kind |-> "nil", of |-> "none"]
ExitErr(id) == [kind |-> "exit", of |-> id]
CtxErr == [kind |-> "ctx", of |-> "none"]
FileErr == [kind |-> "file", of |-> "none"]

\* ---------------------------------------------------- printContainerLogs
DpIdle ==
    /\ dpPc = "idle"
    /\ dpIdx = 1
    /\ dpInFlight = {}
    /\ dpAttempted = <<>>
    /\ dpOutcome = <<>>
    /\ dpWarnings = <<>>

DpInit ==
    /\ dpPc = "loop"
    /\ dpIdx = 1
    /\ dpInFlight = {}
    /\ dpAttempted = <<>>
    /\ dpOutcome = [k \in 1..Len(containerIDs) |-> "none"]
    /\ dpWarnings = <<>>

\* cmd.Run() starts "docker logs <containerID>" (lines 180-191).
DpStartFetch ==
    /\ dpPc = "loop"
    /\ dpIdx <= Len(containerIDs)
    /\ dpPc' = "run"
    /\ dpInFlight' = dpInFlight \cup {dpIdx}
    /\ dpAttempted' = Append(dpAttempted, containerIDs[dpIdx])
    /\ UNCHANGED <<dpIdx, dpOutcome, dpWarnings, containerIDs, ctxDone>>

\* A loop that returns at the first failing fetch.
DpFinishFetchAbort(ok) ==
    /\ dpPc = "run"
    /\ dpInFlight' = dpInFlight \ {dpIdx}
    /\ dpOutcome' = [dpOutcome EXCEPT ![dpIdx] = IF ok THEN "ok" ELSE "fail"]
    /\ dpWarnings' =
           IF ok THEN dpWarnings
           ELSE Append(dpWarnings,
                       [id |-> containerIDs[dpIdx],
                        err |-> IF ctxDone THEN CtxErr
                                ELSE ExitErr(containerIDs[dpIdx])])
    /\ dpIdx' = dpIdx + 1
    /\ dpPc' = IF ok THEN "loop" ELSE "returned"
    /\ UNCHANGED <<dpAttempted, containerIDs, ctxDone>>

\* cmd.Run() returns; a failure is warned about and the loop goes on
\* (lines 191-197).
DpFinishFetch(ok) ==
    /\ dpPc = "run"
    /\ dpInFlight' = dpInFlight \ {dpIdx}
    /\ dpOutcome' = [dpOutcome EXCEPT ![dpIdx] = IF ok THEN "ok" ELSE "fail"]
    /\ dpWarnings' =
           IF ok THEN dpWarnings
           ELSE Append(dpWarnings,
                       [id |-> containerIDs[dpIdx],
                        err |-> IF ctxDone THEN CtxErr
                                ELSE ExitErr(containerIDs[dpIdx])])
    /\ dpIdx' = dpIdx + 1
    /\ dpPc' = "loop"
    /\ UNCHANGED <<dpAttempted, containerIDs, ctxDone>>

DpFinish == \E ok \in RunOutcomes : DpFinishFetch(ok)

\* The range loop is over: the function returns (line 198).
DpReturn ==
    /\ dpPc = "loop"
    /\ dpIdx > Len(containerIDs)
    /\ dpPc' = "returned"
    /\ UNCHANGED <<dpIdx, dpInFlight, dpAttempted, dpOutcome, dpWarnings,
                   containerIDs, ctxDone>>

\* The context is cancelled while printContainerLogs runs.
DpCancel ==
    /\ dpPc \in {"loop", "run"}
    /\ CancelCtx
    /\ UNCHANGED <<dpVars, containerIDs>>

\* ----------------------------------------------------- tailContainerLogs
Positions == 1..Len(containerIDs)

TlIdle ==
    /\ tlPc = "idle"
    /\ tlIdx = 1
    /\ tlRet = "none"
    /\ tlFileOk = "none"
    /\ err = NoErr
    /\ tPc = <<>>
    /\ tRun = <<>>
    /\ tArgs = <<>>
    /\ tStarted = <<>>
    /\ tChunks = <<>>
    /\ tWarned = <<>>
    /\ nodeLogger = <<>>
    /\ nodeLogFile = <<>>

TlInit ==
    /\ tlPc = "create"
    /\ tlIdx = 1
    /\ tlRet = "none"
    /\ tlFileOk = "none"
    /\ err = NoErr
    /\ tPc = [k \in Positions |-> "none"]
    /\ tRun = [k \in Positions |-> NoErr]
    /\ tArgs = [k \in Positions |-> <<>>]
    /\ tStarted = [k \in Positions |-> 0]
    /\ tChunks = [k \in Positions |-> 0]
    /\ tWarned = [k \in Positions |-> <<>>]
    /\ nodeLogger = <<>>
    /\ nodeLogFile = <<>>

\* An os.Create whose error is not looked at.
TlCreateStepIgnoreErr(ok) ==
    /\ tlPc = "create"
    /\ tlFileOk' = IF ok THEN "ok" ELSE "fail"
    /\ err' = IF ok THEN NoErr ELSE FileErr
    /\ tlPc' = "loop"
    /\ tlRet' = tlRet
    /\ UNCHANGED <<tlIdx, tPc, tRun, tArgs, tStarted, tChunks, tWarned,
                   nodeLogger, nodeLogFile, containerIDs, ctxDone>>

\* nodeLogFile, err := os.Create("node.log") and the return on its error
\* (lines 206-211).
TlCreateStep(ok) ==
    /\ tlPc = "create"
    /\ tlFileOk' = IF ok THEN "ok" ELSE "fail"
    /\ err' = IF ok THEN NoErr ELSE FileErr
    /\ IF ok
         THEN /\ tlPc' = "loop"
              /\ tlRet' = tlRet
         ELSE /\ tlPc' = "returned"
              /\ tlRet' = "fileErr"
    /\ UNCHANGED <<tlIdx, tPc, tRun, tArgs, tStarted, tChunks, tWarned,
                   nodeLogger, nodeLogFile, containerIDs, ctxDone>>

TlCreate == \E ok \in BOOLEAN : TlCreateStep(ok)

\* A loop that runs the follow command in place: the next one starts when
\* the previous one has ended.
TlLaunchAndWait ==
    /\ tlPc = "loop"
    /\ tlIdx <= Len(containerIDs)
    /\ (tlIdx > 1 => tPc[tlIdx - 1] = "done")
    /\ tPc' = [tPc EXCEPT ![tlIdx] = "spawned"]
    /\ tlIdx' = tlIdx + 1
    /\ UNCHANGED <<tlPc, tlRet, tlFileOk, err, tRun, tArgs, tStarted, tChunks,
                   tWarned, nodeLogger, nodeLogFile, containerIDs, ctxDone>>

\* go func(containerID, nodeOutWriter) {...}(containerID, nodeOutWriter)
\* (lines 213-214, 232-233): the goroutine exists, the loop moves on.
TlLaunch ==
    /\ tlPc = "loop"
    /\ tlIdx <= Len(containerIDs)
    /\ tPc' = [tPc EXCEPT ![tlIdx] = "spawned"]
    /\ tlIdx' = tlIdx + 1
    /\ UNCHANGED <<tlPc, tlRet, tlFileOk, err, tRun, tArgs, tStarted, tChunks,
                   tWarned, nodeLogger, nodeLogFile, containerIDs, ctxDone>>

\* A return that hands the captured err to the caller.
TlReturnTaskErr ==
    /\ tlPc = "loop"
    /\ tlIdx > Len(containerIDs)
    /\ tlPc' = "returned"
    /\ tlRet' = IF err = NoErr THEN "nil" ELSE "taskErr"
    /\ UNCHANGED <<tlIdx, tlFileOk, err, tPc, tRun, tArgs, tStarted, tChunks,
                   tWarned, nodeLogger, nodeLogFile, containerIDs, ctxDone>>

\* return nil (line 235).
TlReturn ==
    /\ tlPc = "loop"
    /\ tlIdx > Len(containerIDs)
    /\ tlPc' = "returned"
    /\ tlRet' = "nil"
    /\ UNCHANGED <<tlIdx, tlFileOk, err, tPc, tRun, tArgs, tStarted, tChunks,
                   tWarned, nodeLogger, nodeLogFile, containerIDs, ctxDone>>

\* A command that is not bound to the context.
CmdCtxNever == FALSE

\* What a command made by exec.CommandContext(ctx, ...) sees of ctx (line 221).
CmdCtxDone == ctxDone

\* cmd.Run() starts "docker logs -f <containerID>" (lines 215-226); under a
\* cancelled context it returns the context's error without starting a
\* process, and that error is assigned to err.
TkStart(k) ==
    /\ k \in Positions
    /\ tPc[k] = "spawned"
    /\ tArgs' = [tArgs EXCEPT ![k] = <<"logs", "-f", containerIDs[k]>>]
    /\ IF CmdCtxDone
         THEN /\ tPc' = [tPc EXCEPT ![k] = "exited"]
              /\ tRun' = [tRun EXCEPT ![k] = CtxErr]
              /\ err' = CtxErr
              /\ tStarted' = tStarted
         ELSE /\ tPc' = [tPc EXCEPT ![k] = "running"]
              /\ tStarted' = [tStarted EXCEPT ![k] = @ + 1]
              /\ UNCHANGED <<tRun, err>>
    /\ UNCHANGED <<tlPc, tlIdx, tlRet, tlFileOk, tChunks, tWarned,
                   nodeLogger, nodeLogFile, containerIDs, ctxDone>>

\* The command writes a chunk to cmd.Stdout / cmd.Stderr, the one
\* io.MultiWriter (lines 211, 223-224), which writes to its first writer,
\* nodeLogger, ...
TkWriteSink(k) ==
    /\ k \in Positions
    /\ tPc[k] = "running"
    /\ Len(nodeLogger) < MaxChunks
    /\ nodeLogger' = Append(nodeLogger, <<k, tChunks[k] + 1>>)
    /\ tPc' = [tPc EXCEPT ![k] = "midwrite"]
    /\ UNCHANGED <<tlPc, tlIdx, tlRet, tlFileOk, err, tRun, tArgs, tStarted,
                   tChunks, tWarned, nodeLogFile, containerIDs, ctxDone>>

\* A writer that leaves the file out.
TkWriteFileDropped(k) ==
    /\ k \in Positions
    /\ tPc[k] = "midwrite"
    /\ tChunks' = [tChunks EXCEPT ![k] = @ + 1]
    /\ tPc' = [tPc EXCEPT ![k] = "running"]
    /\ UNCHANGED <<tlPc, tlIdx, tlRet, tlFileOk, err, tRun, tArgs, tStarted,
                   tWarned, nodeLogger, nodeLogFile, containerIDs, ctxDone>>

\* ... and then to its second writer, nodeLogFile.
TkWriteFile(k) ==
    /\ k \in Positions
    /\ tPc[k] = "midwrite"
    /\ nodeLogFile' = Append(nodeLogFile, <<k, tChunks[k] + 1>>)
    /\ tChunks' = [tChunks EXCEPT ![k] = @ + 1]
    /\ tPc' = [tPc EXCEPT ![k] = "running"]
    /\ UNCHANGED <<tlPc, tlIdx, tlRet, tlFileOk, err, tRun, tArgs, tStarted,
                   tWarned, nodeLogger, containerIDs, ctxDone>>

\* The follow command exits by itself and err = cmd.Run() assigns what Run
\* returns to the captured err (line 226).
TkExit(k, ok) ==
    /\ k \in Positions
    /\ tPc[k] = "running"
    /\ tPc' = [tPc EXCEPT ![k] = "exited"]
    /\ tRun' = [tRun EXCEPT ![k] = IF ok THEN NoErr ELSE ExitErr(containerIDs[k])]
    /\ err' = IF ok THEN NoErr ELSE ExitErr(containerIDs[k])
    /\ UNCHANGED <<tlPc, tlIdx, tlRet, tlFileOk, tArgs, tStarted, tChunks,
                   tWarned, nodeLogger, nodeLogFile, containerIDs, ctxDone>>

\* The context is done: the follow process is killed, and err = cmd.Run()
\* assigns the error (lines 221, 226).
TkKill(k) ==
    /\ k \in Positions
    /\ tPc[k] = "running"
    /\ CmdCtxDone
    /\ tPc' = [tPc EXCEPT ![k] = "exited"]
    /\ tRun' = [tRun EXCEPT ![k] = CtxErr]
    /\ err' = CtxErr
    /\ UNCHANGED <<tlPc, tlIdx, tlRet, tlFileOk, tArgs, tStarted, tChunks,
                   tWarned, nodeLogger, nodeLogFile, containerIDs, ctxDone>>

\* A task that runs its follow command again when it has ended.
TkCheckRestart(k) ==
    /\ k \in Positions
    /\ tPc[k] = "exited"
    /\ tWarned' = [tWarned EXCEPT ![k] = IF err # NoErr THEN Append(@, err) ELSE @]
    /\ tPc' = [tPc EXCEPT ![k] = "spawned"]
    /\ UNCHANGED <<tlPc, tlIdx, tlRet, tlFileOk, err, tRun, tArgs, tStarted,
                   tChunks, nodeLogger, nodeLogFile, containerIDs, ctxDone>>

\* if err != nil { logger.Warnf(..., containerID, err) } (lines 227-231):
\* the err read is the captured variable, whoever assigned it last.
TkCheck(k) ==
    /\ k \in Positions
    /\ tPc[k] = "exited"
    /\ tWarned' = [tWarned EXCEPT ![k] = IF err # NoErr THEN Append(@, err) ELSE @]
    /\ tPc' = [tPc EXCEPT ![k] = "done"]
    /\ UNCHANGED <<tlPc, tlIdx, tlRet, tlFileOk, err, tRun, tArgs, tStarted,
                   tChunks, nodeLogger, nodeLogFile, containerIDs, ctxDone>>

\* The context is cancelled at any time.
TlCancel ==
    /\ tlPc # "idle"
    /\ CancelCtx
    /\ UNCHANGED <<tlVars, containerIDs>>

TaskIDs == 1..MaxIDs

\* ------------------------------------------------------ the specifications
TailLogsInit ==
    /\ ctxDone = FALSE
    /\ SdIdle /\ InvIdle /\ DpIdle
    /\ containerIDs \in FollowLists
    /\ TlInit

\* The functions that do not run in this specification stay idle.
TailOnly == UNCHANGED <<sdVars, invVars, dpVars>>

TailLogsNext ==
    \/ (TlCreate \/ TlLaunch \/ TlReturn \/ TlCancel) /\ TailOnly
    \/ \E k \in TaskIDs :
           (TkStart(k) \/ TkWriteSink(k) \/ TkWriteFile(k) \/ TkKill(k) \/ TkCheck(k)
              \/ \E ok \in BOOLEAN : TkExit(k, ok))
               /\ TailOnly

TailLogsSpec == TailLogsInit /\ [][TailLogsNext]_vars

\* The steps of goroutine k that need nothing but the scheduler: starting
\* the command, completing a started write to the MultiWriter, the kill of
\* its process once the context is done, and the test of err.  A follow
\* command exits or writes by itself only if it chooses to.
TkFairStep(k) == TkStart(k) \/ TkWriteFile(k) \/ TkKill(k) \/ TkCheck(k)

\* Every goroutine, the calling one included, is scheduled.
TailLogsFairness ==
    /\ WF_vars((TlCreate \/ TlLaunch \/ TlReturn) /\ TailOnly)
    /\ \A k \in TaskIDs : WF_vars(TkFairStep(k) /\ TailOnly)

TailLogsFairSpec == TailLogsSpec /\ TailLogsFairness

InventoryInit ==
    /\ ctxDone \in BOOLEAN
    /\ SdIdle
    /\ containerIDs = <<>> /\ DpIdle /\ TlIdle
    /\ InvInit

InventoryNext ==
    \/ GetContainerIDs /\ UNCHANGED <<sdVars, containerIDs, dpVars, tlVars>>
    \/ GetContainerIDForNodeName /\ UNCHANGED <<sdVars, containerIDs, dpVars, tlVars>>
    \/ GetContainerAddr /\ UNCHANGED <<sdVars, containerIDs, dpVars, tlVars>>

InventorySpec == InventoryInit /\ [][InventoryNext]_vars

\* Runs of up to MaxCalls queries, one after the other.
InventoryCallsInit ==
    /\ ctxDone \in BOOLEAN
    /\ SdIdle
    /\ containerIDs = <<>> /\ DpIdle /\ TlIdle
    /\ InvInitFrom(ShortOutputs)

InventoryCallsNext ==
    \/ InventoryNext
    \/ InvAgain /\ UNCHANGED <<sdVars, containerIDs, dpVars, tlVars>>

InventoryCallsSpec == InventoryCallsInit /\ [][InventoryCallsNext]_vars

PrintLogsInit ==
    /\ ctxDone = FALSE
    /\ SdIdle /\ InvIdle /\ TlIdle
    /\ containerIDs \in IDLists
    /\ DpInit

PrintLogsNext ==
    (DpStartFetch \/ DpFinish \/ DpReturn \/ DpCancel)
        /\ UNCHANGED <<sdVars, invVars, tlVars>>

PrintLogsSpec == PrintLogsInit /\ [][PrintLogsNext]_vars

DockerInit ==
    /\ ctxDone = FALSE
    /\ SdInit
    /\ InvIdle
    /\ containerIDs = <<>> /\ DpIdle /\ TlIdle

DockerNext == SdNext /\ UNCHANGED <<invVars, containerIDs, dpVars, tlVars>>

DockerSpec == DockerInit /\ [][DockerNext]_vars

\* startDocker runs on: every command it runs returns, and so does the sleep.
\* Nothing makes the context be cancelled.
DockerFairSpec ==
    DockerSpec /\ WF_vars(SdStep /\ UNCHANGED <<invVars, containerIDs, dpVars, tlVars>>)

\* ----------------------------------------------------------------- claims

\* C11: a query that has returned has run exactly one docker command, with
\* the arguments of that query; when the command failed it has returned the
\* command's error with an empty result, and when it succeeded no error;
\* and a call starts with no command run and nothing returned, whatever the
\* call before it returned.
C11_OneCommandNoRetry ==
    /\ invPc = "call" =>
          /\ invCmds = 0 /\ invArgs = <<>> /\ invErr = "none"
          /\ invRetIDs = <<>> /\ invRetStr = <<>>
    /\ invPc = "returned" =>
          /\ invCmds = 1
          /\ invArgs = CASE invOp = "ids" ->
                              IF invAll THEN <<"ps", "-a", "--quiet">>
                              ELSE <<"ps", "--quiet">>
                          [] invOp = "name" ->
                              <<"ps", "--quiet", "--filter", "name=nodeName">>
                          [] invOp = "addr" ->
                              <<"inspect", "--format", "template", "containerID">>
          /\ invErr = IF invCmdOk THEN "nil" ELSE "cmdErr"
          /\ ~invCmdOk => (invRetIDs = <<>> /\ invRetStr = <<>>)
          /\ (invCmdOk /\ invOp = "ids") =>
                 \A k \in 1..Len(invRetIDs) :
                     \E i, j \in 1..Len(invOutput) : invRetIDs[k] = SubSeq(invOutput, i, j)
          /\ (invCmdOk /\ invOp # "ids") =>
                 \/ invRetStr = <<>>
                 \/ \E i, j \in 1..Len(invOutput) : invRetStr = SubSeq(invOutput, i, j)

\* C11 witness: a query whose command failed has returned, after a query
\* that had succeeded with a result.
C11_Witness ==
    /\ invPc = "returned"
    /\ invCallNo = 2
    /\ invPrevErr = "nil"
    /\ ~invCmdOk /\ invOutput # <<>>
    /\ invErr = "cmdErr"
    /\ invCmds = 1

\* C4: a follow task that has finished has warned exactly once, with its own
\* identifier's error, when its own follow command failed, and has not
\* warned when its own follow command exited without error, whatever the
\* other tasks did.
C4_OwnFailureOwnWarning ==
    \A k \in Positions :
        tPc[k] = "done" =>
            IF tRun[k] = NoErr THEN tWarned[k] = <<>> ELSE tWarned[k] = <<tRun[k]>>

\* C5: the loop launches one goroutine per identifier without waiting: at
\* every position of the loop its next step can be taken whatever the
\* goroutines launched so far are doing, the goroutines launched are those
\* of the identifiers passed, each runs at most one "logs -f" command, for
\* its own identifier, and when the call has returned nil all N exist.
C5_LaunchesAllWithoutWaiting ==
    /\ tlPc = "loop" => ENABLED (TlLaunch \/ TlReturn)
    /\ \A k \in Positions :
          /\ (tPc[k] # "none") <=> (k < tlIdx)
          /\ tStarted[k] <= 1
          /\ tArgs[k] \in {<<>>, <<"logs", "-f", containerIDs[k]>>}
          /\ tPc[k] \in {"running", "midwrite"} =>
                 (tStarted[k] = 1 /\ tArgs[k] = <<"logs", "-f", containerIDs[k]>>)
    /\ (tlPc = "returned" /\ tlRet = "nil") =>
          (tlIdx = Len(containerIDs) + 1 /\ \A k \in Positions : tPc[k] # "none")

\* C5 witness: the call has returned while every one of two or more follow
\* commands is still running.
C5_Witness ==
    /\ tlPc = "returned" /\ tlRet = "nil"
    /\ Len(containerIDs) >= 2
    /\ \A k \in Positions : tPc[k] = "running" /\ tStarted[k] = 1

FollowRunning(k) == k \in Positions /\ tPc[k] \in {"running", "midwrite"}

\* C6: once the context is cancelled, eventually no follow process is
\* running, and none ever runs again; and a follow command ends by the
\* context only when the one shared context is done.
C6_CancelStopsAllFollows ==
    /\ [](\A k \in TaskIDs :
            (k \in Positions /\ tRun[k] = CtxErr) => ctxDone)
    /\ (ctxDone ~> [](\A k \in TaskIDs : ~FollowRunning(k)))

\* C6 witness: after the cancellation every task has ended, one whose
\* process was killed and one that had not started its process.
C6_Witness ==
    /\ ctxDone
    /\ Len(containerIDs) >= 2
    /\ \A k \in Positions : tPc[k] = "done"
    /\ \E k \in Positions : tRun[k] = CtxErr /\ tStarted[k] = 1
    /\ \E k \in Positions : tRun[k] = CtxErr /\ tStarted[k] = 0

\* C8: when os.Create fails the call has returned the file error with no
\* goroutine launched, no follow command run and nothing written, and the
\* file error is the only error the call returns.
C8_CreateFailureAborts ==
    /\ tlFileOk = "fail" =>
          /\ tlPc = "returned"
          /\ tlRet = "fileErr"
          /\ tlIdx = 1
          /\ \A k \in Positions :
                 tPc[k] = "none" /\ tStarted[k] = 0 /\ tArgs[k] = <<>>
          /\ nodeLogger = <<>>
          /\ nodeLogFile = <<>>
    /\ tlRet \in {"none", "nil", "fileErr"}
    /\ tlRet = "fileErr" => tlFileOk = "fail"
    /\ tlRet = "nil" => tlFileOk = "ok"

\* C8 witness: the file could not be created for a call with identifiers.
C8_Witness ==
    /\ tlFileOk = "fail"
    /\ tlPc = "returned"
    /\ Len(containerIDs) >= 2
\* The lines of an output, told by position: a line starts at 1 and after
\* every newline, and runs up to the next newline or the end.
LineStarts(s) == {i \in 1..(Len(s) + 1) : i = 1 \/ s[i - 1] = "\n"}

LineEnd(s, i) ==
    CHOOSE e \in (i - 1)..Len(s) :
        /\ \A p \in i..e : s[p] # "\n"
        /\ (e = Len(s) \/ s[e + 1] = "\n")

NonSpaceIn(s, i, e) == {p \in i..e : ~IsSpace(s[p])}

NonBlankStarts(s) == {i \in LineStarts(s) : NonSpaceIn(s, i, LineEnd(s, i)) # {}}

\* The line starting at i, from its first to its last non-space character.
TrimmedLineAt(s, i) ==
    LET ns == NonSpaceIn(s, i, LineEnd(s, i))
        lo == CHOOSE p \in ns : \A q \in ns : p <= q
        hi == CHOOSE p \in ns : \A q \in ns : q <= p
    IN  SubSeq(s, lo, hi)

\* C9: getContainerIDs returns exactly the trimmed non-blank lines of the
\* output, in the order of the output: as many entries as non-blank lines,
\* the k-th entry the k-th non-blank line trimmed, and no entry empty or
\* with whitespace at either end.
C9_IDsAreTrimmedNonBlankLines ==
    (invPc = "returned" /\ invOp = "ids" /\ invErr = "nil")
        => LET nb == NonBlankStarts(invOutput)
           IN  /\ Len(invRetIDs) = Cardinality(nb)
               /\ \A i \in nb :
                      invRetIDs[Cardinality({j \in nb : j <= i})]
                          = TrimmedLineAt(invOutput, i)
               /\ \A k \in 1..Len(invRetIDs) :
                      /\ invRetIDs[k] # <<>>
                      /\ ~IsSpace(invRetIDs[k][1])
                      /\ ~IsSpace(invRetIDs[k][Len(invRetIDs[k])])

\* C9 witness: an output with an empty and a whitespace-only line between
\* two identifiers.
C9_Witness ==
    /\ invPc = "returned" /\ invOp = "ids"
    /\ invOutput = <<"a", "\n", "\n", " ", "\n", "b">>
    /\ invRetIDs = << <<"a">>, <<"b">> >>

\* The output is one token (characters i..j) with only whitespace around it.
IsSingleToken(s, i, j) ==
    /\ i <= j
    /\ \A p \in 1..Len(s) : IsSpace(s[p]) <=> (p < i \/ p > j)

\* C10: getContainerIDForNodeName returns an error exactly when the command
\* fails; when it succeeds, an output without a match (empty, or whitespace
\* only) gives the empty string and an output of one token gives that token
\* without the whitespace around it.
C10_NameResolution ==
    (invPc = "returned" /\ invOp = "name")
        => /\ (invErr = "cmdErr") <=> ~invCmdOk
           /\ invCmdOk =>
                /\ invErr = "nil"
                /\ (NonSpaceIn(invOutput, 1, Len(invOutput)) = {}) => invRetStr = <<>>
                /\ \A i, j \in 1..Len(invOutput) :
                       IsSingleToken(invOutput, i, j)
                           => invRetStr = SubSeq(invOutput, i, j)

\* C10 witness: one match, printed with its newline.
C10_Witness ==
    /\ invPc = "returned" /\ invOp = "name"
    /\ invOutput = <<"a", "b", "\n">>
    /\ invRetStr = <<"a", "b">>
    /\ invErr = "nil"

\* C7: printContainerLogs fetches the identifiers one at a time in the given
\* order, warns exactly once for each failing fetch, under that fetch's
\* identifier, and not for the others, and returns only when every
\* identifier has been fetched and no fetch is running.
C7_DumpAttemptsAll ==
    /\ Cardinality(dpInFlight) <= 1
    /\ dpAttempted = SubSeq(containerIDs, 1, Len(dpAttempted))
    /\ Len(dpWarnings) = Cardinality({k \in DOMAIN dpOutcome : dpOutcome[k] = "fail"})
    /\ \A k \in DOMAIN dpOutcome :
          Cardinality({w \in 1..Len(dpWarnings) : dpWarnings[w].id = containerIDs[k]})
              = IF dpOutcome[k] = "fail" THEN 1 ELSE 0
    /\ \A w \in 1..Len(dpWarnings) :
          dpWarnings[w].err \in {ExitErr(dpWarnings[w].id), CtxErr}
    /\ dpPc = "returned" =>
          /\ dpAttempted = containerIDs
          /\ dpInFlight = {}
          /\ \A k \in DOMAIN dpOutcome : dpOutcome[k] # "none"

\* C7 witness: the first fetch failed, a later one succeeded, the call returned.
C7_Witness ==
    /\ dpPc = "returned"
    /\ Len(containerIDs) >= 2
    /\ dpOutcome[1] = "fail"
    /\ dpOutcome[Len(containerIDs)] = "ok"
    /\ Len(dpWarnings) = 1

\* C1: when every probe failed and every restart succeeded, startDocker has
\* returned the launch error after exactly M+1 probes and M restarts
\* (M = maxDockerLaunchAttempts).
C1_ExhaustionCounts ==
    (sdPc = "done" /\ probesFailed = probes /\ restartsFailed = 0)
        => /\ probes = maxDockerLaunchAttempts + 1
           /\ restarts = maxDockerLaunchAttempts
           /\ sdRet = "ErrLaunch"

\* C2: once a probe has succeeded (the k-th one), startDocker has returned
\* nil and nothing has happened since: k probes, the k-1 restarts and sleeps
\* that preceded it, and no more; with k = 1, one probe and no restart.
C2_SuccessReturnsAtOnce ==
    (probes > probesFailed)
        => /\ sdPc = "done"
           /\ sdRet = "nil"
           /\ probes = probesFailed + 1
           /\ restarts = probes - 1
           /\ restartsFailed = 0
           /\ sleeps = restarts
           /\ attempts = restarts

\* C2 witness: the probe succeeded on a later invocation, after restarts.
C2_Witness ==
    /\ sdRet = "nil"
    /\ probes >= 2
    /\ probes = maxDockerLaunchAttempts + 1
    /\ restarts = probes - 1

\* C3: once a restart command has failed, startDocker has returned that
\* command's own error, and the failed restart was the last thing it did: no
\* sleep and no increment for it, no later probe or restart.
C3_RestartFailureReturned ==
    (restartsFailed > 0)
        => /\ sdPc = "done"
           /\ sdRet = "startErr"
           /\ restartsFailed = 1
           /\ sleeps = restarts - 1
           /\ attempts = restarts - 1
           /\ probes = restarts
           /\ probesFailed = probes

\* C3 witness: a restart failed at the highest attempt count a restart can
\* be issued at, with the context still live.
C3_Witness ==
    /\ sdRet = "startErr"
    /\ ~ctxDone
    /\ attempts >= 1
    /\ attempts >= maxDockerLaunchAttempts

\* The errors startDocker can return.
SdErrors == {"ErrLaunch", "startErr"}

RestartsOk == restarts - restartsFailed

\* The position in the cycle fixes the counts: what has been done since the
\* last increment is the part of the cycle before the position.
SdCycleCounts ==
    /\ (sdPc = "probe") =>
            /\ probes = attempts /\ probesFailed = probes
            /\ restarts = attempts /\ restartsFailed = 0
    /\ (sdPc \in {"check", "restart"}) =>
            /\ probes = attempts + 1 /\ probesFailed = probes
            /\ restarts = attempts /\ restartsFailed = 0
    /\ (sdPc = "restart") => ~CeilingReached(attempts)
    /\ (sdPc \in {"sleep", "sleeping", "incr"}) =>
            /\ probes = attempts + 1 /\ probesFailed = probes
            /\ restarts = attempts + 1 /\ restartsFailed = 0
    /\ (sdPc = "done" /\ sdRet = "nil") =>
            /\ probes = attempts + 1 /\ probesFailed = attempts
            /\ restarts = attempts /\ restartsFailed = 0
    /\ (sdPc = "done" /\ sdRet = "ErrLaunch") =>
            /\ probes = attempts + 1 /\ probesFailed = probes
            /\ restarts = attempts /\ restartsFailed = 0
            /\ CeilingReached(attempts)
    /\ (sdPc = "done" /\ sdRet = "startErr") =>
            /\ probes = attempts + 1 /\ probesFailed = probes
            /\ restarts = attempts + 1 /\ restartsFailed = 1

\* Each step is taken from its place in the cycle only.
SdCycleSteps ==
    /\ (probes' # probes) => (sdPc = "probe" /\ sdPc' \in {"check", "done"})
    /\ (restarts' # restarts) =>
            /\ sdPc = "restart" /\ sdPc' \in {"sleep", "done"}
            /\ probesFailed = probes /\ ~CeilingReached(attempts)
    /\ (sdPc' = "sleeping" /\ sdPc # "sleeping") =>
            (sdPc = "sleep" /\ RestartsOk = attempts + 1)
    /\ (sleeps' # sleeps) => (sdPc = "sleeping" /\ sdPc' = "incr")
    /\ (attempts' # attempts) =>
            (sdPc = "incr" /\ sdPc' = "probe" /\ attempts' = attempts + 1)
    /\ (sdPc = "check") => (sdPc' \in {"check", "restart", "done"})

\* C13 as stated: the steps follow the cycle, and in every state the attempt
\* counter equals the number of completed sleeps, which equals the number of
\* successful restarts.
C13_CountersAlwaysEqual ==
    /\ [](SdCycleCounts /\ attempts = sleeps /\ sleeps = RestartsOk)
    /\ [][SdCycleSteps]_vars

\* C13 amended: the steps follow the cycle; the attempt counter, the completed
\* sleeps and the successful restarts are equal whenever startDocker is at the
\* probe, at the ceiling check or about to restart, and when it has returned
\* nil or the launch error; inside a cycle the restart is counted first, then
\* the sleep, then the attempt.
C13_FixedCycle ==
    /\ [](SdCycleCounts)
    /\ [](attempts <= sleeps /\ sleeps <= RestartsOk /\ RestartsOk <= attempts + 1)
    /\ []((sdPc \in {"probe", "check", "restart"} \/ sdRet \in {"nil", "ErrLaunch"})
            => (attempts = sleeps /\ sleeps = RestartsOk))
    /\ []((sdPc \in {"sleep", "sleeping"})
            => (sleeps = attempts /\ RestartsOk = attempts + 1))
    /\ []((sdPc = "incr") => (sleeps = attempts + 1 /\ RestartsOk = attempts + 1))
    /\ []((sdRet = "startErr") => (sleeps = attempts /\ RestartsOk = attempts))
    /\ [][SdCycleSteps]_vars

\* C13 witness: the loop is back at the probe after two full cycles.
C13_Witness ==
    /\ sdPc = "probe"
    /\ attempts = 2
    /\ sleeps = 2
    /\ RestartsOk = 2

\* What C14 says of every state in which the context is cancelled: no probe
\* and no restart has succeeded since, startDocker has not returned nil.
CancelledNoSuccess ==
    ctxDone => /\ sdAfterCancel.ready = 0
               /\ sdAfterCancel.restartOk = 0
               /\ sdRet \in {"none"} \cup SdErrors

\* C14 as stated: once the context is cancelled, startDocker returns an error,
\* no probe and no restart succeeds and no backoff sleep starts.
C14_NoSleepAfterCancel ==
    /\ ctxDone ~> (sdPc = "done" /\ sdRet \in SdErrors)
    /\ [](CancelledNoSuccess /\ sdAfterCancel.sleepStart = 0)

\* C14 amended: once the context is cancelled, startDocker returns an error,
\* no probe and no restart succeeds, and no backoff sleep starts except the
\* one after a restart that had succeeded before the cancellation: at most
\* one sleep starts, and it starts before any other step is taken.
C14_CancelEndsInError ==
    /\ ctxDone ~> (sdPc = "done" /\ sdRet \in SdErrors)
    /\ [](CancelledNoSuccess /\ sdAfterCancel.sleepStart <= 1)
    /\ [][(sdAfterCancel'.sleepStart # sdAfterCancel.sleepStart)
            => (sdPc = "sleep" /\ sdCancelledAt = probes + restarts + sleeps)]_vars

\* C14 witness: the context was cancelled after a successful restart, the
\* sleep was still taken, and startDocker returned an error.
C14_Witness ==
    /\ ctxDone
    /\ sdPc = "done"
    /\ sdRet \in SdErrors
    /\ sdAfterCancel.sleepStart = 1

\* A follow task whose command has failed and returned.
FollowFailed(k) == tPc[k] \in {"exited", "done"} /\ tRun[k] # NoErr

\* C15: once the log file has been created, the call returns nil and nothing
\* else, whatever the follow tasks have done by then; the value returned is
\* never changed afterwards.
C15_ReturnsNilDespiteFailures ==
    /\ []((tlPc = "returned" /\ tlFileOk = "ok") => (tlRet = "nil"))
    /\ [][(tlFileOk = "ok" /\ tlPc = "loop" /\ tlPc' = "returned")
            => (tlRet' = "nil")]_vars
    /\ [][(tlPc = "returned") => (tlPc' = "returned" /\ tlRet' = tlRet)]_vars

\* C15 witness: the call is about to return, with the file created, and
\* every one of two or more follow commands has already failed and left its
\* error in the captured err.
C15_Witness ==
    /\ tlFileOk = "ok"
    /\ tlPc = "loop"
    /\ tlIdx > Len(containerIDs)
    /\ Len(containerIDs) >= 2
    /\ \A k \in Positions : FollowFailed(k)
    /\ err # NoErr

\* The chunks of task k in a log, in the log's order.
ChunksOf(log, k) ==
    LET OfTask(c) == c[1] = k
    IN  SelectSeq(log, OfTask)

\* The first n chunks task k writes, in the order it writes them.
ChunksWritten(k, n) == [i \in 1..n |-> <<k, i>>]

\* C16: every chunk a follow task has written is in the primary sink and in
\* the file (in the sink only while the write of it is in progress), and the
\* chunks of one task are in both in the order the task wrote them.
C16_EveryChunkToBoth ==
    /\ \A k \in Positions :
          /\ ChunksOf(nodeLogFile, k) = ChunksWritten(k, tChunks[k])
          /\ ChunksOf(nodeLogger, k) =
                ChunksWritten(k, tChunks[k] + (IF tPc[k] = "midwrite" THEN 1 ELSE 0))
    /\ \A i \in 1..Len(nodeLogger) : nodeLogger[i][1] \in Positions
    /\ \A i \in 1..Len(nodeLogFile) : nodeLogFile[i][1] \in Positions

\* C16 witness: one of two tasks has written two chunks, and both are in
\* the sink and in the file.
C16_Witness ==
    /\ Len(containerIDs) >= 2
    /\ \E k \in Positions : tChunks[k] = 2 /\ tPc[k] # "midwrite"
    /\ Len(nodeLogFile) = 2
    /\ Len(nodeLogger) = 2

\* C17: whenever no write is in progress, the primary sink and the file
\* hold the same sequence of chunks.
C17_SameSequence ==
    (\A k \in Positions : tPc[k] # "midwrite") => (nodeLogger = nodeLogFile)

\* The number of follow commands started by the tasks 1..n.
RECURSIVE StartedUpTo(_)
StartedUpTo(n) == IF n = 0 THEN 0 ELSE tStarted[n] + StartedUpTo(n - 1)

\* C18: a task starts its follow command at most once: none before the task
\* runs, one while the command runs, and when the command has ended the task
\* stays ended and starts nothing; the commands started are at most as many
\* as the identifiers.
C18_FollowRunsAtMostOnce ==
    /\ [](\A k \in Positions :
            /\ tStarted[k] \in {0, 1}
            /\ (tPc[k] \in {"none", "spawned"}) => (tStarted[k] = 0)
            /\ (tPc[k] \in {"running", "midwrite"}) => (tStarted[k] = 1))
    /\ [](StartedUpTo(Len(containerIDs)) <= Len(containerIDs))
    /\ [][\A k \in Positions :
            (tPc[k] \in {"exited", "done"})
                => (tPc'[k] \in {"exited", "done"} /\ tStarted'[k] = tStarted[k])]_vars

\* C18 witness: every one of two or more tasks has started its command once,
\* one command exited without an error and one with, and all tasks have ended.
C18_Witness ==
    /\ Len(containerIDs) >= 2
    /\ \A k \in Positions : tPc[k] = "done" /\ tStarted[k] = 1
    /\ \E k \in Positions : tRun[k] = NoErr
    /\ \E k \in Positions : tRun[k] = ExitErr(containerIDs[k])
    /\ StartedUpTo(Len(containerIDs)) = Len(containerIDs)

====
